---------------------------- MODULE Spec2Model ----------------------------
(***************************************************************************)
(* Monster behaviour and combat simulation of src/monster_ai_system.py:    *)
(* MonsterAI (one agent) and MonsterSpawner (the population).              *)
(*                                                                         *)
(* Units.  Times (time.time(), delta_time, durations, cooldowns) are in    *)
(* tenths of a second; lengths and coordinates are in tenths of a world    *)
(* unit; health and damage are in hit points.  Multipliers are in tenths   *)
(* (1.5 is 15) and int(x * m) is (x * m10) \div 10.  All inputs are drawn  *)
(* so that every product the code forms is exact in these units.           *)
(*                                                                         *)
(* Positions lie on the x axis (y = z = 0), so distance_to is |dx|; the    *)
(* random patrol offset is drawn with a zero z component.                  *)
(*                                                                         *)
(* The wall clock advances between sweeps: each update_monsters call reads *)
(* time.time() once, some elapsed time after the previous sweep; spawn and *)
(* damage calls made between two sweeps read the clock of the earlier one. *)
(* delta_time is the caller's argument and is independent of the clock.    *)
(***************************************************************************)
EXTENDS Integers, Sequences, FiniteSets, TLC

VARIABLES
    now,               \* the wall clock read by time.time()
    monster_templates, \* MonsterSpawner.monster_templates: species key -> MonsterStats
    active_monsters,   \* MonsterSpawner.active_monsters: insertion-ordered dict, as a
                       \* sequence of entries [id, ai]
    spawn_points,      \* MonsterSpawner.spawn_points
    spawn_timer,       \* MonsterSpawner.spawn_timer
    created,           \* number of MonsterAI objects constructed so far (object identity)
    defeated_reports,  \* per MonsterAI object: "defeated" results returned so far (0, 1, 2 = more)
    last,              \* the last call made on the spawner, its arguments and its result
    inflight           \* a sweep running in a second thread of a concurrent host, suspended
                       \* inside line 198 between the load of current_health and its store;
                       \* None when no sweep is suspended

vars == <<now, monster_templates, active_monsters, spawn_points, spawn_timer,
          created, defeated_reports, last, inflight>>

---------------------------------------------------------------------------
(* Bounds of the model *)

\* the wall clock runs for MaxTime seconds from Epoch
MaxTime == 4
\* MonsterAI objects constructed in one behaviour
MaxSpawns == 3
\* status instances held by one agent
MaxEffects == 2
\* registered spawn points
MaxSpawnPoints == 1
\* damage calls that run while a sweep is suspended
MaxRacing == 1
\* MonsterSpawner.max_monsters, an instance attribute (default 10, line 412),
\* configured low here so that a full population is reached
max_monsters == 2

\* time.time() at the start of a behaviour (any value beyond the first cooldown)
Epoch == 100 * 10

None == <<>>
Some(x) == <<x>>

---------------------------------------------------------------------------
(* Enumerations *)

MonsterType == {"Great Jaggi", "Qurupeco", "Barroth", "Rathian", "Rathalos",
                "Diablos", "Tigrex", "Nargacuga", "Barioth"}

StatusEffect == {"poison", "paralysis", "sleep", "stun", "mount", "trap"}

AttackType == {"physical", "fire", "ice", "thunder", "water", "dragon", "poison"}

Abs(x) == IF x < 0 THEN -x ELSE x

Min(a, b) == IF a < b THEN a ELSE b

Max(a, b) == IF a > b THEN a ELSE b

\* round() of a number given in tenths: a half goes to the even neighbour
round(tenths) ==
    IF tenths % 10 < 5 THEN tenths \div 10
    ELSE IF tenths % 10 > 5 THEN tenths \div 10 + 1
    ELSE IF (tenths \div 10) % 2 = 0 THEN tenths \div 10
    ELSE tenths \div 10 + 1

\* Position.distance_to on the x axis
distance_to(p, q) == Abs(p - q)

\* Position.move_towards: ratio = min(speed / distance, 1.0)
move_towards(p, target, speed) ==
    IF distance_to(p, target) = 0 THEN p
    ELSE IF speed >= distance_to(p, target) THEN target
    ELSE IF target > p THEN p + speed ELSE p - speed

\* MonsterSpawner._create_monster_templates
create_monster_templates ==
    [t \in {"great_jaggi", "rathian", "tigrex"} |->
        CASE t = "great_jaggi" ->
               [name |-> "Great Jaggi", monster_type |-> "Great Jaggi",
                health |-> 800, max_health |-> 800, attack |-> 45, defense |-> 20,
                speed |-> 3, size |-> "medium",
                elemental_weakness |-> {"fire"}, elemental_resistance |-> {"water"},
                status_weakness |-> {"paralysis"}, status_resistance |-> {"poison"},
                rage_threshold |-> 3, enrage_multiplier |-> 15]
          [] t = "rathian" ->
               [name |-> "Rathian", monster_type |-> "Rathian",
                health |-> 2000, max_health |-> 2000, attack |-> 80, defense |-> 35,
                speed |-> 4, size |-> "large",
                elemental_weakness |-> {"thunder"}, elemental_resistance |-> {"fire"},
                status_weakness |-> {"stun"}, status_resistance |-> {"poison"},
                rage_threshold |-> 4, enrage_multiplier |-> 18]
          [] t = "tigrex" ->
               [name |-> "Tigrex", monster_type |-> "Tigrex",
                health |-> 3000, max_health |-> 3000, attack |-> 120, defense |-> 50,
                speed |-> 5, size |-> "large",
                elemental_weakness |-> {"thunder"}, elemental_resistance |-> {"fire", "ice"},
                status_weakness |-> {"stun"}, status_resistance |-> {"paralysis"},
                rage_threshold |-> 5, enrage_multiplier |-> 20]]

\* MonsterAI._generate_attack_patterns (range in tenths of a unit, cooldown in tenths
\* of a second; "type" and "status" are None where the dictionary has no such key)
generate_attack_patterns(monster_type) ==
    CASE monster_type = "Great Jaggi" ->
           << [name |-> "Tail Swipe", damage |-> 15, range |-> 30, cooldown |-> 15,
               type |-> None, status |-> None],
              [name |-> "Charge", damage |-> 25, range |-> 50, cooldown |-> 20,
               type |-> None, status |-> None],
              [name |-> "Bite", damage |-> 20, range |-> 20, cooldown |-> 10,
               type |-> None, status |-> None] >>
      [] monster_type = "Rathian" ->
           << [name |-> "Fire Breath", damage |-> 30, range |-> 40, cooldown |-> 30,
               type |-> Some("fire"), status |-> None],
              [name |-> "Tail Flip", damage |-> 35, range |-> 35, cooldown |-> 25,
               type |-> None, status |-> Some("poison")],
              [name |-> "Charge", damage |-> 25, range |-> 60, cooldown |-> 20,
               type |-> None, status |-> None] >>
      [] monster_type = "Tigrex" ->
           << [name |-> "Roar", damage |-> 10, range |-> 80, cooldown |-> 40,
               type |-> None, status |-> Some("stun")],
              [name |-> "Claw Swipe", damage |-> 40, range |-> 30, cooldown |-> 15,
               type |-> None, status |-> None],
              [name |-> "Rush Attack", damage |-> 50, range |-> 70, cooldown |-> 30,
               type |-> None, status |-> None] >>
      [] OTHER ->
           << [name |-> "Basic Attack", damage |-> 20, range |-> 20, cooldown |-> 15,
               type |-> None, status |-> None] >>

\* MonsterAI.__init__; stats is the key of the shared template (a reference, not a
\* copy), serial is the identity of the constructed object
MonsterAI(stats_key, templates, initial_position, current_time, serial) ==
    [stats |-> stats_key,
     position |-> initial_position,
     target_position |-> initial_position,
     current_health |-> templates[stats_key].health,
     is_enraged |-> FALSE,
     is_stunned |-> FALSE,
     is_sleeping |-> FALSE,
     is_trapped |-> FALSE,
     is_mounted |-> FALSE,
     status_effects |-> <<>>,
     last_attack_time |-> 0,
     attack_cooldown |-> 20,
     state |-> "idle",
     target_player |-> None,
     rage_timer |-> 0,
     last_movement |-> current_time,
     attack_patterns |-> generate_attack_patterns(templates[stats_key].monster_type),
     current_pattern_index |-> 0,
     serial |-> serial]


---------------------------------------------------------------------------
(* MonsterAI *)

\* one iteration of the loop of MonsterAI._update_status_effects (lines 192-216);
\* ai.status_effects accumulates active_effects
apply_effect(ai, effect, current_time, delta_time) ==
    IF current_time - effect.start_time < effect.duration
    THEN LET kept == [ai EXCEPT !.status_effects = Append(@, effect)] IN
         CASE effect.effect = "poison" ->
                [kept EXCEPT !.current_health = @ - (effect.intensity * delta_time) \div 10]
           [] effect.effect = "paralysis" -> [kept EXCEPT !.is_stunned = TRUE]
           [] effect.effect = "sleep" -> [kept EXCEPT !.is_sleeping = TRUE]
           [] effect.effect = "trap" -> [kept EXCEPT !.is_trapped = TRUE]
           [] effect.effect = "mount" -> [kept EXCEPT !.is_mounted = TRUE]
           [] OTHER -> kept
    ELSE CASE effect.effect = "paralysis" -> [ai EXCEPT !.is_stunned = FALSE]
           [] effect.effect = "sleep" -> [ai EXCEPT !.is_sleeping = FALSE]
           [] effect.effect = "trap" -> [ai EXCEPT !.is_trapped = FALSE]
           [] effect.effect = "mount" -> [ai EXCEPT !.is_mounted = FALSE]
           [] OTHER -> ai

RECURSIVE apply_effects(_, _, _, _)
apply_effects(ai, effects, current_time, delta_time) ==
    IF effects = <<>> THEN ai
    ELSE apply_effects(apply_effect(ai, Head(effects), current_time, delta_time),
                       Tail(effects), current_time, delta_time)

\* MonsterAI._update_status_effects
update_status_effects(ai, current_time, delta_time) ==
    apply_effects([ai EXCEPT !.status_effects = <<>>], ai.status_effects,
                  current_time, delta_time)

\* the loop of _find_nearest_player replacing the candidate on an equal distance too
RECURSIVE nearest_from_last(_, _, _)
nearest_from_last(position, players, nearest) ==
    IF players = <<>> THEN nearest
    ELSE LET player == Head(players) IN
         IF nearest = None
            \/ distance_to(position, player.position) <= distance_to(position, nearest[1].position)
         THEN nearest_from_last(position, Tail(players), Some(player))
         ELSE nearest_from_last(position, Tail(players), nearest)

\* the loop of MonsterAI._find_nearest_player: a strictly smaller distance replaces
\* the candidate; nearest = None stands for min_distance = inf
RECURSIVE nearest_from(_, _, _)
nearest_from(position, players, nearest) ==
    IF players = <<>> THEN nearest
    ELSE LET player == Head(players) IN
         IF nearest = None
            \/ distance_to(position, player.position) < distance_to(position, nearest[1].position)
         THEN nearest_from(position, Tail(players), Some(player))
         ELSE nearest_from(position, Tail(players), nearest)

\* MonsterAI._find_nearest_player
find_nearest_player(ai, players) ==
    IF players = <<>> THEN None ELSE nearest_from(ai.position, players, None)

\* MonsterAI._become_enraged: the agent and the template it shares
become_enraged(ai, templates, current_time) ==
    [ai |-> [ai EXCEPT !.is_enraged = TRUE,
                       !.rage_timer = current_time,
                       !.attack_cooldown = (@ * 7) \div 10],
     templates |-> [templates EXCEPT ![ai.stats].attack =
                        (@ * templates[ai.stats].enrage_multiplier) \div 10]]

\* check_enraged with the rage wearing off two seconds after rage_timer
check_enraged_expiring(ai, templates, current_time) ==
    IF ai.current_health * 10 <= templates[ai.stats].rage_threshold * templates[ai.stats].max_health
       /\ ~ai.is_enraged
    THEN become_enraged(ai, templates, current_time)
    ELSE IF ai.is_enraged /\ current_time - ai.rage_timer >= 20
    THEN [ai |-> [ai EXCEPT !.is_enraged = FALSE], templates |-> templates]
    ELSE [ai |-> ai, templates |-> templates]

\* check_enraged without the "not self.is_enraged" conjunct
check_enraged_every_tick(ai, templates, current_time) ==
    IF ai.current_health * 10 <= templates[ai.stats].rage_threshold * templates[ai.stats].max_health
    THEN become_enraged(ai, templates, current_time)
    ELSE [ai |-> ai, templates |-> templates]

\* the enrage check of MonsterAI.update (lines 161-164)
check_enraged(ai, templates, current_time) ==
    IF ai.current_health * 10 <= templates[ai.stats].rage_threshold * templates[ai.stats].max_health
       /\ ~ai.is_enraged
    THEN become_enraged(ai, templates, current_time)
    ELSE [ai |-> ai, templates |-> templates]

\* perform_attack holding an attack back until the cooldown of the selected
\* pattern has passed as well
perform_attack_pattern_gated(ai, templates, player, current_time) ==
    LET attack_pattern == ai.attack_patterns[ai.current_pattern_index + 1]
        advanced == [ai EXCEPT !.current_pattern_index = (@ + 1) % Len(ai.attack_patterns)]
        base_damage == IF ai.is_enraged
                       THEN (attack_pattern.damage * templates[ai.stats].enrage_multiplier) \div 10
                       ELSE attack_pattern.damage
        player_distance == distance_to(ai.position, player.position)
    IN  IF current_time - ai.last_attack_time < Max(ai.attack_cooldown, attack_pattern.cooldown)
        THEN [ai |-> ai, raised |-> FALSE,
              result |-> [action |-> "cooldown", position |-> ai.position]]
        ELSE IF player_distance <= attack_pattern.range
        THEN [ai |-> [advanced EXCEPT !.last_attack_time = current_time],
              raised |-> ~player.has_name,
              result |-> [action |-> "attack",
                          attack_name |-> attack_pattern.name,
                          damage |-> Max(1, base_damage - player.defense),
                          position |-> ai.position,
                          target_player |-> player.id,
                          attack_type |-> IF attack_pattern.type = None
                                          THEN "physical" ELSE attack_pattern.type[1],
                          status_effect |-> attack_pattern.status]]
        ELSE [ai |-> advanced, raised |-> FALSE,
              result |-> [action |-> "miss", position |-> ai.position]]

\* perform_attack advancing the pattern index before the cooldown test
perform_attack_advancing_early(ai, templates, player, current_time) ==
    LET attack_pattern == ai.attack_patterns[ai.current_pattern_index + 1]
        advanced == [ai EXCEPT !.current_pattern_index = (@ + 1) % Len(ai.attack_patterns)]
        base_damage == IF ai.is_enraged
                       THEN (attack_pattern.damage * templates[ai.stats].enrage_multiplier) \div 10
                       ELSE attack_pattern.damage
        player_distance == distance_to(ai.position, player.position)
    IN  IF current_time - ai.last_attack_time < ai.attack_cooldown
        THEN [ai |-> advanced, raised |-> FALSE,
              result |-> [action |-> "cooldown", position |-> ai.position]]
        ELSE IF player_distance <= attack_pattern.range
        THEN [ai |-> [advanced EXCEPT !.last_attack_time = current_time],
              raised |-> ~player.has_name,
              result |-> [action |-> "attack",
                          attack_name |-> attack_pattern.name,
                          damage |-> Max(1, base_damage - player.defense),
                          position |-> ai.position,
                          target_player |-> player.id,
                          attack_type |-> IF attack_pattern.type = None
                                          THEN "physical" ELSE attack_pattern.type[1],
                          status_effect |-> attack_pattern.status]]
        ELSE [ai |-> advanced, raised |-> FALSE,
              result |-> [action |-> "miss", position |-> ai.position]]

\* perform_attack with the enraged damage rounded to nearest instead of truncated
perform_attack_rounding(ai, templates, player, current_time) ==
    IF current_time - ai.last_attack_time < ai.attack_cooldown
    THEN [ai |-> ai, raised |-> FALSE,
          result |-> [action |-> "cooldown", position |-> ai.position]]
    ELSE LET attack_pattern == ai.attack_patterns[ai.current_pattern_index + 1]
             advanced == [ai EXCEPT !.current_pattern_index =
                                        (@ + 1) % Len(ai.attack_patterns)]
             base_damage == IF ai.is_enraged
                            THEN round(attack_pattern.damage * templates[ai.stats].enrage_multiplier)
                            ELSE attack_pattern.damage
             player_distance == distance_to(ai.position, player.position)
         IN  IF player_distance <= attack_pattern.range
             THEN [ai |-> [advanced EXCEPT !.last_attack_time = current_time],
                   raised |-> ~player.has_name,
                   result |-> [action |-> "attack",
                               attack_name |-> attack_pattern.name,
                               damage |-> Max(1, base_damage - player.defense),
                               position |-> ai.position,
                               target_player |-> player.id,
                               attack_type |-> IF attack_pattern.type = None
                                               THEN "physical" ELSE attack_pattern.type[1],
                               status_effect |-> attack_pattern.status]]
             ELSE [ai |-> advanced, raised |-> FALSE,
                   result |-> [action |-> "miss", position |-> ai.position]]

\* MonsterAI._perform_attack; raised is the KeyError of player['name'] at line 278
perform_attack(ai, templates, player, current_time) ==
    IF current_time - ai.last_attack_time < ai.attack_cooldown
    THEN [ai |-> ai, raised |-> FALSE,
          result |-> [action |-> "cooldown", position |-> ai.position]]
    ELSE LET attack_pattern == ai.attack_patterns[ai.current_pattern_index + 1]
             advanced == [ai EXCEPT !.current_pattern_index =
                                        (@ + 1) % Len(ai.attack_patterns)]
             base_damage == IF ai.is_enraged
                            THEN (attack_pattern.damage * templates[ai.stats].enrage_multiplier) \div 10
                            ELSE attack_pattern.damage
             player_distance == distance_to(ai.position, player.position)
         IN  IF player_distance <= attack_pattern.range
             THEN [ai |-> [advanced EXCEPT !.last_attack_time = current_time],
                   raised |-> ~player.has_name,
                   result |-> [action |-> "attack",
                               attack_name |-> attack_pattern.name,
                               damage |-> Max(1, base_damage - player.defense),
                               position |-> ai.position,
                               target_player |-> player.id,
                               attack_type |-> IF attack_pattern.type = None
                                               THEN "physical" ELSE attack_pattern.type[1],
                               status_effect |-> attack_pattern.status]]
             ELSE [ai |-> advanced, raised |-> FALSE,
                   result |-> [action |-> "miss", position |-> ai.position]]

\* chase_player stepping the full movement_speed, past the player if it is nearer
chase_player_overshooting(ai, templates, player, delta_time) ==
    IF ai.is_trapped \/ ai.is_stunned \/ ai.is_sleeping
    THEN [ai |-> ai, raised |-> FALSE,
          result |-> [action |-> "stunned", position |-> ai.position]]
    ELSE LET movement_speed == IF ai.is_enraged
                               THEN (templates[ai.stats].speed * delta_time * 13) \div 10
                               ELSE templates[ai.stats].speed * delta_time
             moved == [ai EXCEPT !.position = IF player.position >= @
                                              THEN @ + movement_speed
                                              ELSE @ - movement_speed]
         IN  [ai |-> moved, raised |-> FALSE,
              result |-> [action |-> "chase", position |-> moved.position,
                          target |-> player.id, speed |-> movement_speed]]

\* MonsterAI._chase_player
chase_player(ai, templates, player, delta_time) ==
    IF ai.is_trapped \/ ai.is_stunned \/ ai.is_sleeping
    THEN [ai |-> ai, raised |-> FALSE,
          result |-> [action |-> "stunned", position |-> ai.position]]
    ELSE LET movement_speed == IF ai.is_enraged
                               THEN (templates[ai.stats].speed * delta_time * 13) \div 10
                               ELSE templates[ai.stats].speed * delta_time
             moved == [ai EXCEPT !.position = move_towards(@, player.position, movement_speed)]
         IN  [ai |-> moved, raised |-> FALSE,
              result |-> [action |-> "chase", position |-> moved.position,
                          target |-> player.id, speed |-> movement_speed]]

\* MonsterAI._idle_behavior; rnd.threshold is the draw of random.uniform(3.0, 8.0)
\* and rnd.offset the x component of random_offset
idle_behavior(ai, templates, delta_time, current_time, rnd) ==
    IF ai.is_sleeping
    THEN [ai |-> ai, raised |-> FALSE,
          result |-> [action |-> "sleep", position |-> ai.position]]
    ELSE LET retargeted == IF current_time - ai.last_movement > rnd.threshold
                           THEN [ai EXCEPT !.target_position = ai.position + rnd.offset,
                                           !.last_movement = current_time]
                           ELSE ai
         IN  IF distance_to(retargeted.position, retargeted.target_position) > 5
             THEN LET movement_speed == (templates[ai.stats].speed * 3 * delta_time) \div 10
                      moved == [retargeted EXCEPT !.position =
                                    move_towards(@, retargeted.target_position, movement_speed)]
                  IN  [ai |-> moved, raised |-> FALSE,
                       result |-> [action |-> "patrol", position |-> moved.position]]
             ELSE [ai |-> retargeted, raised |-> FALSE,
                   result |-> [action |-> "idle", position |-> retargeted.position]]

\* the behaviour selection attacking a player within 5.0 instead of 2.0
select_behavior_attacking_wide(ai, templates, delta_time, nearby_players, current_time, rnd) ==
    LET nearest_player == find_nearest_player(ai, nearby_players) IN
    IF nearest_player # None
    THEN LET player == nearest_player[1]
             targeting == [ai EXCEPT !.target_player = Some(player.id)]
             player_distance == distance_to(ai.position, player.position)
         IN  IF player_distance <= 50 /\ ~ai.is_stunned /\ ~ai.is_sleeping
             THEN perform_attack(targeting, templates, player, current_time)
             ELSE IF player_distance <= 150 /\ ~ai.is_stunned /\ ~ai.is_sleeping
             THEN chase_player(targeting, templates, player, delta_time)
             ELSE idle_behavior(targeting, templates, delta_time, current_time, rnd)
    ELSE idle_behavior(ai, templates, delta_time, current_time, rnd)

\* the behaviour selection of MonsterAI.update (lines 166-185)
select_behavior(ai, templates, delta_time, nearby_players, current_time, rnd) ==
    LET nearest_player == find_nearest_player(ai, nearby_players) IN
    IF nearest_player # None
    THEN LET player == nearest_player[1]
             targeting == [ai EXCEPT !.target_player = Some(player.id)]
             player_distance == distance_to(ai.position, player.position)
         IN  IF player_distance <= 20 /\ ~ai.is_stunned /\ ~ai.is_sleeping
             THEN perform_attack(targeting, templates, player, current_time)
             ELSE IF player_distance <= 150 /\ ~ai.is_stunned /\ ~ai.is_sleeping
             THEN chase_player(targeting, templates, player, delta_time)
             ELSE idle_behavior(targeting, templates, delta_time, current_time, rnd)
    ELSE idle_behavior(ai, templates, delta_time, current_time, rnd)

\* MonsterAI.update: the agent, the shared templates, the returned dictionary and
\* whether the call raised
update(ai, templates, delta_time, nearby_players, current_time, rnd) ==
    LET ticked == update_status_effects(ai, current_time, delta_time)
        raged == check_enraged(ticked, templates, current_time)
        acted == select_behavior(raged.ai, raged.templates, delta_time, nearby_players,
                                 current_time, rnd)
    IN  [ai |-> acted.ai, templates |-> raged.templates,
         result |-> acted.result, raised |-> acted.raised]

\* take_damage without the max(0, ...) of line 346
take_damage_unclamped(ai, templates, damage, attack_type, status_effect, status_duration, current_time, flee_draw) ==
    LET stats == templates[ai.stats]
        damage_multiplier == IF attack_type \in stats.elemental_weakness THEN 15
                             ELSE IF attack_type \in stats.elemental_resistance THEN 7
                             ELSE 10
        duration == IF status_effect # None /\ status_effect[1] \in stats.status_resistance
                    THEN (status_duration * 5) \div 10
                    ELSE status_duration
        final_damage == (damage * damage_multiplier) \div 10
        hit == [ai EXCEPT !.current_health = @ - final_damage]
        afflicted == IF status_effect # None /\ duration > 0
                     THEN [hit EXCEPT !.status_effects =
                               Append(@, [effect |-> status_effect[1],
                                          duration |-> duration,
                                          intensity |-> 1,
                                          start_time |-> current_time])]
                     ELSE hit
    IN  IF afflicted.current_health <= 0
        THEN [ai |-> afflicted,
              result |-> [action |-> "defeated", damage |-> final_damage,
                          health |-> 0, status |-> "dead"]]
        ELSE IF afflicted.current_health * 10 < stats.max_health * 2 /\ flee_draw
        THEN [ai |-> [afflicted EXCEPT !.state = "fleeing"],
              result |-> [action |-> "flee", damage |-> final_damage,
                          health |-> afflicted.current_health, status |-> "fleeing"]]
        ELSE [ai |-> afflicted,
              result |-> [action |-> "damaged", damage |-> final_damage,
                          health |-> afflicted.current_health, status |-> "alive"]]

\* take_damage refreshing the instance of the same kind instead of stacking another
take_damage_refreshing(ai, templates, damage, attack_type, status_effect, status_duration, current_time, flee_draw) ==
    LET stats == templates[ai.stats]
        damage_multiplier == IF attack_type \in stats.elemental_weakness THEN 15
                             ELSE IF attack_type \in stats.elemental_resistance THEN 7
                             ELSE 10
        duration == IF status_effect # None /\ status_effect[1] \in stats.status_resistance
                    THEN (status_duration * 5) \div 10
                    ELSE status_duration
        final_damage == (damage * damage_multiplier) \div 10
        hit == [ai EXCEPT !.current_health = Max(0, @ - final_damage)]
        same == {k \in DOMAIN ai.status_effects :
                     status_effect # None /\ ai.status_effects[k].effect = status_effect[1]}
        afflicted == IF status_effect # None /\ duration > 0
                     THEN [hit EXCEPT !.status_effects =
                               IF same # {}
                               THEN [k \in DOMAIN @ |->
                                        IF k \in same
                                        THEN [@[k] EXCEPT !.duration = duration,
                                                          !.start_time = current_time]
                                        ELSE @[k]]
                               ELSE Append(@, [effect |-> status_effect[1],
                                               duration |-> duration,
                                               intensity |-> 1,
                                               start_time |-> current_time])]
                     ELSE hit
    IN  IF afflicted.current_health <= 0
        THEN [ai |-> afflicted,
              result |-> [action |-> "defeated", damage |-> final_damage,
                          health |-> 0, status |-> "dead"]]
        ELSE IF afflicted.current_health * 10 < stats.max_health * 2 /\ flee_draw
        THEN [ai |-> [afflicted EXCEPT !.state = "fleeing"],
              result |-> [action |-> "flee", damage |-> final_damage,
                          health |-> afflicted.current_health, status |-> "fleeing"]]
        ELSE [ai |-> afflicted,
              result |-> [action |-> "damaged", damage |-> final_damage,
                          health |-> afflicted.current_health, status |-> "alive"]]

\* take_damage testing the flee threshold before the defeat
take_damage_fleeing_first(ai, templates, damage, attack_type, status_effect, status_duration, current_time, flee_draw) ==
    LET stats == templates[ai.stats]
        damage_multiplier == IF attack_type \in stats.elemental_weakness THEN 15
                             ELSE IF attack_type \in stats.elemental_resistance THEN 7
                             ELSE 10
        duration == IF status_effect # None /\ status_effect[1] \in stats.status_resistance
                    THEN (status_duration * 5) \div 10
                    ELSE status_duration
        final_damage == (damage * damage_multiplier) \div 10
        hit == [ai EXCEPT !.current_health = Max(0, @ - final_damage)]
        afflicted == IF status_effect # None /\ duration > 0
                     THEN [hit EXCEPT !.status_effects =
                               Append(@, [effect |-> status_effect[1],
                                          duration |-> duration,
                                          intensity |-> 1,
                                          start_time |-> current_time])]
                     ELSE hit
    IN  IF afflicted.current_health * 10 < stats.max_health * 2 /\ flee_draw
        THEN [ai |-> [afflicted EXCEPT !.state = "fleeing"],
              result |-> [action |-> "flee", damage |-> final_damage,
                          health |-> afflicted.current_health, status |-> "fleeing"]]
        ELSE IF afflicted.current_health <= 0
        THEN [ai |-> afflicted,
              result |-> [action |-> "defeated", damage |-> final_damage,
                          health |-> 0, status |-> "dead"]]
        ELSE [ai |-> afflicted,
              result |-> [action |-> "damaged", damage |-> final_damage,
                          health |-> afflicted.current_health, status |-> "alive"]]

\* MonsterAI.take_damage; status_effect is None or Some(kind), flee_draw is
\* random.random() < 0.3
take_damage(ai, templates, damage, attack_type, status_effect, status_duration, current_time, flee_draw) ==
    LET stats == templates[ai.stats]
        damage_multiplier == IF attack_type \in stats.elemental_weakness THEN 15
                             ELSE IF attack_type \in stats.elemental_resistance THEN 7
                             ELSE 10
        duration == IF status_effect # None /\ status_effect[1] \in stats.status_resistance
                    THEN (status_duration * 5) \div 10
                    ELSE status_duration
        final_damage == (damage * damage_multiplier) \div 10
        hit == [ai EXCEPT !.current_health = Max(0, @ - final_damage)]
        afflicted == IF status_effect # None /\ duration > 0
                     THEN [hit EXCEPT !.status_effects =
                               Append(@, [effect |-> status_effect[1],
                                          duration |-> duration,
                                          intensity |-> 1,
                                          start_time |-> current_time])]
                     ELSE hit
    IN  IF afflicted.current_health <= 0
        THEN [ai |-> afflicted,
              result |-> [action |-> "defeated", damage |-> final_damage,
                          health |-> 0, status |-> "dead"]]
        ELSE IF afflicted.current_health * 10 < stats.max_health * 2 /\ flee_draw
        THEN [ai |-> [afflicted EXCEPT !.state = "fleeing"],
              result |-> [action |-> "flee", damage |-> final_damage,
                          health |-> afflicted.current_health, status |-> "fleeing"]]
        ELSE [ai |-> afflicted,
              result |-> [action |-> "damaged", damage |-> final_damage,
                          health |-> afflicted.current_health, status |-> "alive"]]

\* MonsterAI.get_state
get_state(ai, templates) ==
    [name |-> templates[ai.stats].name,
     type |-> templates[ai.stats].monster_type,
     health |-> ai.current_health,
     max_health |-> templates[ai.stats].max_health,
     position |-> ai.position,
     is_enraged |-> ai.is_enraged,
     is_stunned |-> ai.is_stunned,
     is_sleeping |-> ai.is_sleeping,
     is_trapped |-> ai.is_trapped,
     is_mounted |-> ai.is_mounted,
     state |-> ai.state,
     status_effects |-> [k \in DOMAIN ai.status_effects |-> ai.status_effects[k].effect],
     target_player |-> ai.target_player]

---------------------------------------------------------------------------
(* MonsterSpawner *)

\* the dictionary active_monsters
Ids(entries) == {entries[i].id : i \in DOMAIN entries}

IndexOf(entries, id) == CHOOSE i \in DOMAIN entries : entries[i].id = id

\* active_monsters[id] = ai: a present key keeps its place, a new key goes last
Put(entries, id, ai) ==
    IF id \in Ids(entries)
    THEN [entries EXCEPT ![IndexOf(entries, id)].ai = ai]
    ELSE Append(entries, [id |-> id, ai |-> ai])

\* del active_monsters[id] for every id of monsters_to_remove
RECURSIVE Remove(_, _)
Remove(entries, ids) ==
    IF entries = <<>> THEN <<>>
    ELSE IF Head(entries).id \in ids THEN Remove(Tail(entries), ids)
    ELSE <<Head(entries)>> \o Remove(Tail(entries), ids)

\* the history of "defeated" results, per MonsterAI object
Report(reports, serial, result) ==
    IF result.action = "defeated"
    THEN [reports EXCEPT ![serial] = Min(@ + 1, 2)]
    ELSE reports

\* spawn_monster with the cap test written > instead of >=
spawn_monster_over(entries, templates, monster_type, position, current_time, rand, serial) ==
    IF Len(entries) > max_monsters THEN [entries |-> entries, ret |-> None]
    ELSE IF monster_type \notin DOMAIN templates THEN [entries |-> entries, ret |-> None]
    ELSE LET monster_id == <<monster_type, current_time \div 10, rand>>
             monster_ai == MonsterAI(monster_type, templates, position, current_time, serial)
         IN  [entries |-> Put(entries, monster_id, monster_ai), ret |-> Some(monster_id)]

\* spawn_monster with an unknown species falling back to the first template
spawn_monster_fallback(entries, templates, monster_type, position, current_time, rand, serial) ==
    IF Len(entries) >= max_monsters THEN [entries |-> entries, ret |-> None]
    ELSE LET known == IF monster_type \in DOMAIN templates THEN monster_type
                      ELSE "great_jaggi"
             monster_id == <<monster_type, current_time \div 10, rand>>
             monster_ai == MonsterAI(known, templates, position, current_time, serial)
         IN  [entries |-> Put(entries, monster_id, monster_ai), ret |-> Some(monster_id)]

\* MonsterSpawner.spawn_monster; rand is the draw of random.randint(1000, 9999)
spawn_monster(entries, templates, monster_type, position, current_time, rand, serial) ==
    IF Len(entries) >= max_monsters THEN [entries |-> entries, ret |-> None]
    ELSE IF monster_type \notin DOMAIN templates THEN [entries |-> entries, ret |-> None]
    ELSE LET monster_id == <<monster_type, current_time \div 10, rand>>
             monster_ai == MonsterAI(monster_type, templates, position, current_time, serial)
         IN  [entries |-> Put(entries, monster_id, monster_ai), ret |-> Some(monster_id)]

\* get_monster_state subscripting the dictionary without the membership test
get_monster_state_unchecked(entries, templates, monster_id) ==
    IF monster_id \in Ids(entries)
    THEN [entries |-> entries, raised |-> FALSE,
          ret |-> Some(get_state(entries[IndexOf(entries, monster_id)].ai, templates))]
    ELSE [entries |-> entries, raised |-> TRUE, ret |-> None]

\* get_monster_state marking an agent without health as "dead" before reporting it
get_monster_state_marking(entries, templates, monster_id) ==
    IF monster_id \in Ids(entries)
    THEN LET i == IndexOf(entries, monster_id)
             marked == IF entries[i].ai.current_health <= 0
                       THEN [entries EXCEPT ![i].ai.state = "dead"]
                       ELSE entries
         IN  [entries |-> marked, raised |-> FALSE,
              ret |-> Some(get_state(marked[i].ai, templates))]
    ELSE [entries |-> entries, raised |-> FALSE, ret |-> None]

\* MonsterSpawner.get_monster_state: the dictionary after the call, the value
\* returned and whether the call raised
get_monster_state(entries, templates, monster_id) ==
    IF monster_id \in Ids(entries)
    THEN [entries |-> entries, raised |-> FALSE,
          ret |-> Some(get_state(entries[IndexOf(entries, monster_id)].ai, templates))]
    ELSE [entries |-> entries, raised |-> FALSE, ret |-> None]

\* sweep_from without the try/except of lines 494-505: the exception of one update
\* ends the loop
RECURSIVE sweep_from_aborting(_, _, _, _, _, _)
sweep_from_aborting(sw, i, delta_time, nearby_players, current_time, rnds) ==
    IF i > Len(sw.entries) THEN sw
    ELSE LET monster_id == sw.entries[i].id
             u == update(sw.entries[i].ai, sw.templates, delta_time, nearby_players,
                         current_time, rnds[i])
             entries == [sw.entries EXCEPT ![i].ai = u.ai]
         IN  IF u.raised
             THEN [sw EXCEPT !.entries = entries,
                             !.templates = u.templates,
                             !.raised = @ \cup {monster_id}]
             ELSE sweep_from_aborting([entries |-> entries,
                                       templates |-> u.templates,
                                       updates |-> Append(sw.updates,
                                                          [monster_id |-> monster_id,
                                                           update |-> u.result]),
                                       monsters_to_remove |->
                                           IF u.result.action = "defeated"
                                           THEN sw.monsters_to_remove \cup {monster_id}
                                           ELSE sw.monsters_to_remove,
                                       raised |-> sw.raised,
                                       reports |-> Report(sw.reports, u.ai.serial, u.result)],
                                      i + 1, delta_time, nearby_players, current_time, rnds)

\* the loop of MonsterSpawner.update_monsters (lines 493-505) from entry i on: sw holds
\* the entries with the agents updated so far, the shared templates, updates,
\* monsters_to_remove, the ids whose update raised and the history of "defeated"
\* results
RECURSIVE sweep_from(_, _, _, _, _, _)
sweep_from(sw, i, delta_time, nearby_players, current_time, rnds) ==
    IF i > Len(sw.entries) THEN sw
    ELSE LET monster_id == sw.entries[i].id
             u == update(sw.entries[i].ai, sw.templates, delta_time, nearby_players,
                         current_time, rnds[i])
             entries == [sw.entries EXCEPT ![i].ai = u.ai]
         IN  IF u.raised
             THEN sweep_from([sw EXCEPT !.entries = entries,
                                        !.templates = u.templates,
                                        !.monsters_to_remove = @ \cup {monster_id},
                                        !.raised = @ \cup {monster_id}],
                             i + 1, delta_time, nearby_players, current_time, rnds)
             ELSE sweep_from([entries |-> entries,
                              templates |-> u.templates,
                              updates |-> Append(sw.updates,
                                                 [monster_id |-> monster_id, update |-> u.result]),
                              monsters_to_remove |->
                                  IF u.result.action = "defeated"
                                  THEN sw.monsters_to_remove \cup {monster_id}
                                  ELSE sw.monsters_to_remove,
                              raised |-> sw.raised,
                              reports |-> Report(sw.reports, u.ai.serial, u.result)],
                             i + 1, delta_time, nearby_players, current_time, rnds)

---------------------------------------------------------------------------
(* The state after MonsterSpawner.__init__, and the calls on the spawner *)

Init ==
    /\ now = Epoch
    /\ monster_templates = create_monster_templates
    /\ active_monsters = <<>>
    /\ spawn_points = <<>>
    /\ spawn_timer = 0
    /\ created = 0
    /\ defeated_reports = <<>>
    /\ last = [op |-> "init"]
    /\ inflight = None

\* MonsterSpawner.add_spawn_point
AddSpawnPoint(positions) ==
    \E position \in positions :
        /\ Len(spawn_points) < MaxSpawnPoints
        /\ spawn_points' = Append(spawn_points, position)
        /\ last' = [op |-> "add_spawn_point"]
        /\ UNCHANGED <<now, monster_templates, active_monsters, spawn_timer,
                       created, defeated_reports, inflight>>

\* a call of MonsterSpawner.spawn_monster
SpawnMonster(monster_types, positions, rands) ==
    \E monster_type \in monster_types, position \in positions, rand \in rands :
        LET s == spawn_monster(active_monsters, monster_templates, monster_type,
                               position, now, rand, created + 1)
        IN  /\ s.ret # None => created < MaxSpawns
            /\ active_monsters' = s.entries
            /\ created' = IF s.ret # None THEN created + 1 ELSE created
            /\ defeated_reports' = IF s.ret # None THEN Append(defeated_reports, 0)
                                   ELSE defeated_reports
            /\ last' = [op |-> "spawn_monster", monster_type |-> monster_type, ret |-> s.ret]
            /\ UNCHANGED <<now, monster_templates, spawn_points, spawn_timer, inflight>>

\* an id that was never handed out
StaleId == <<"great_jaggi", 0, 0>>

\* a call of MonsterSpawner.damage_monster; a call that runs while a sweep is
\* suspended is noted in inflight
DamageMonster(amounts, attack_types, status_effects, status_durations) ==
    \E monster_id \in Ids(active_monsters) \cup {StaleId}, damage \in amounts,
       attack_type \in attack_types, status_effect \in status_effects,
       status_duration \in status_durations, flee_draw \in BOOLEAN :
        /\ inflight' = IF inflight = None THEN None
                       ELSE Some([inflight[1] EXCEPT !.calls =
                                     Append(@, [monster_id |-> monster_id,
                                                damage |-> damage,
                                                attack_type |-> attack_type,
                                                status_effect |-> status_effect,
                                                status_duration |-> status_duration,
                                                flee_draw |-> flee_draw])])
        /\ IF monster_id \in Ids(active_monsters)
           THEN LET i == IndexOf(active_monsters, monster_id)
                    d == take_damage(active_monsters[i].ai, monster_templates, damage,
                                     attack_type, status_effect, status_duration, now, flee_draw)
                IN  /\ Len(d.ai.status_effects) <= MaxEffects
                    /\ active_monsters' = [active_monsters EXCEPT ![i].ai = d.ai]
                    /\ defeated_reports' = Report(defeated_reports, d.ai.serial, d.result)
                    /\ last' = [op |-> "damage_monster", monster_id |-> monster_id,
                                damage |-> damage, attack_type |-> attack_type,
                                status_effect |-> status_effect,
                                status_duration |-> status_duration,
                                ret |-> Some(d.result)]
                    /\ UNCHANGED <<now, monster_templates, spawn_points, spawn_timer, created>>
           ELSE /\ last' = [op |-> "damage_monster", monster_id |-> monster_id,
                            damage |-> damage, attack_type |-> attack_type, ret |-> None]
                /\ UNCHANGED <<now, monster_templates, active_monsters, spawn_points,
                               spawn_timer, created, defeated_reports>>

\* update_monsters resetting the timer only where an agent is spawned
Sweep_resetting_on_spawn(entries, delta_time, nearby_players, current_time, rnds, rands) ==
    LET sw == sweep_from([entries |-> entries,
                          templates |-> monster_templates,
                          updates |-> <<>>,
                          monsters_to_remove |-> {},
                          raised |-> {},
                          reports |-> defeated_reports],
                         1, delta_time, nearby_players, current_time, rnds)
        remaining == Remove(sw.entries, sw.monsters_to_remove)
        timer == spawn_timer + delta_time
        due == timer >= 300 /\ Len(remaining) < max_monsters
    IN  /\ now' = current_time
        /\ monster_templates' = sw.templates
        /\ spawn_timer' = IF due /\ spawn_points # <<>> THEN 0 ELSE timer
        /\ spawn_points' = spawn_points
        /\ last' = [op |-> "update_monsters", delta_time |-> delta_time,
                    nearby_players |-> nearby_players, ret |-> sw.updates,
                    removed |-> sw.monsters_to_remove, raised |-> sw.raised]
        /\ IF due /\ spawn_points # <<>>
           THEN \E p \in DOMAIN spawn_points, monster_type \in DOMAIN monster_templates,
                   rand \in rands :
                    LET s == spawn_monster(remaining, sw.templates, monster_type,
                                           spawn_points[p], current_time, rand, created + 1)
                    IN  /\ created < MaxSpawns
                        /\ active_monsters' = s.entries
                        /\ created' = created + 1
                        /\ defeated_reports' = Append(sw.reports, 0)
           ELSE /\ active_monsters' = remaining
                /\ created' = created
                /\ defeated_reports' = sw.reports

\* MonsterSpawner.update_monsters run over entries at current_time; the timed spawn
\* is MonsterSpawner._spawn_random_monster
Sweep(entries, delta_time, nearby_players, current_time, rnds, rands) ==
    LET sw == sweep_from([entries |-> entries,
                          templates |-> monster_templates,
                          updates |-> <<>>,
                          monsters_to_remove |-> {},
                          raised |-> {},
                          reports |-> defeated_reports],
                         1, delta_time, nearby_players, current_time, rnds)
        remaining == Remove(sw.entries, sw.monsters_to_remove)
        timer == spawn_timer + delta_time
        due == timer >= 300 /\ Len(remaining) < max_monsters
    IN  /\ now' = current_time
        /\ monster_templates' = sw.templates
        /\ spawn_timer' = IF due THEN 0 ELSE timer
        /\ spawn_points' = spawn_points
        /\ last' = [op |-> "update_monsters", delta_time |-> delta_time,
                    nearby_players |-> nearby_players, ret |-> sw.updates,
                    removed |-> sw.monsters_to_remove, raised |-> sw.raised]
        /\ IF due /\ spawn_points # <<>>
           THEN \E p \in DOMAIN spawn_points, monster_type \in DOMAIN monster_templates,
                   rand \in rands :
                    LET s == spawn_monster(remaining, sw.templates, monster_type,
                                           spawn_points[p], current_time, rand, created + 1)
                    IN  /\ created < MaxSpawns
                        /\ active_monsters' = s.entries
                        /\ created' = created + 1
                        /\ defeated_reports' = Append(sw.reports, 0)
           ELSE /\ active_monsters' = remaining
                /\ created' = created
                /\ defeated_reports' = sw.reports

\* a call of MonsterSpawner.update_monsters, made elapsed after the previous call
UpdateMonsters(delta_times, player_lists, clock_steps, draws, rands) ==
    \E delta_time \in delta_times, nearby_players \in player_lists, elapsed \in clock_steps,
       rnds \in [DOMAIN active_monsters -> draws] :
        /\ now + elapsed <= Epoch + MaxTime * 10
        /\ Sweep(active_monsters, delta_time, nearby_players, now + elapsed, rnds, rands)
        /\ UNCHANGED inflight

\* a call of MonsterSpawner.get_monster_state, with a live id or one of ids
GetMonsterState(ids) ==
    \E monster_id \in Ids(active_monsters) \cup ids :
        LET g == get_monster_state(active_monsters, monster_templates, monster_id)
        IN  /\ active_monsters' = g.entries
            /\ last' = [op |-> "get_monster_state", monster_id |-> monster_id,
                        ret |-> g.ret, raised |-> g.raised]
            /\ UNCHANGED <<now, monster_templates, spawn_points, spawn_timer, created,
                           defeated_reports, inflight>>

---------------------------------------------------------------------------
(* A concurrent host: update_monsters runs in one thread while damage_monster is
   called from another.  The class takes no lock, so the sweep can be preempted
   between two bytecodes.  One preemption point is modelled: inside
   "self.current_health -= effect.intensity * delta_time" (line 198), after
   current_health has been loaded and before the difference is stored, for the
   first active poison instance of the first agent of the sweep.  The damage
   calls that run meanwhile carry no status effect (they leave the list the
   sweep iterates over alone). *)

HasActivePoison(ai, current_time) ==
    \E k \in DOMAIN ai.status_effects :
        /\ ai.status_effects[k].effect = "poison"
        /\ current_time - ai.status_effects[k].start_time < ai.status_effects[k].duration

\* update_monsters is called, reads the clock, and is preempted at the load
SuspendSweep(delta_times, player_lists, clock_steps, draws) ==
    \E delta_time \in delta_times, nearby_players \in player_lists, elapsed \in clock_steps,
       rnds \in [DOMAIN active_monsters -> draws] :
        /\ inflight = None
        /\ now + elapsed <= Epoch + MaxTime * 10
        /\ active_monsters # <<>>
        /\ HasActivePoison(active_monsters[1].ai, now + elapsed)
        /\ now' = now + elapsed
        /\ inflight' = Some([delta_time |-> delta_time,
                             nearby_players |-> nearby_players,
                             rnds |-> rnds,
                             monster_id |-> active_monsters[1].id,
                             loaded |-> active_monsters[1].ai,
                             calls |-> <<>>])
        /\ UNCHANGED <<monster_templates, active_monsters, spawn_points, spawn_timer,
                       created, defeated_reports, last>>

\* the suspended sweep resumes: it stores the difference computed from the health it
\* had loaded, and runs to its end
ResumeSweep(rands) ==
    /\ inflight # None
    /\ LET f == inflight[1]
           i == IndexOf(active_monsters, f.monster_id)
           stored == [active_monsters EXCEPT ![i].ai.current_health = f.loaded.current_health]
       IN  Sweep(stored, f.delta_time, f.nearby_players, now, f.rnds, rands)
    /\ inflight' = None

---------------------------------------------------------------------------
(* Inputs of the calls *)

\* players handed to update_monsters: Hunter1 stands within attack range of the
\* spawn position, Hunter2 within chase range, and Hunter3 is a bare descriptor
\* {id, position, defense}, without a name, within attack range
Hunter1 == [id |-> "player1", has_name |-> TRUE, position |-> 10, defense |-> 15]

Hunter2 == [id |-> "player2", has_name |-> TRUE, position |-> 100, defense |-> 20]

Hunter3 == [id |-> "player3", has_name |-> FALSE, position |-> 10, defense |-> 0]

\* Hunter4 stands as far from the spawn position as Hunter1, on the other side, and
\* Hunter5 exactly 2.0 from it
Hunter4 == [id |-> "player4", has_name |-> TRUE, position |-> -10, defense |-> 0]

Hunter5 == [id |-> "player5", has_name |-> TRUE, position |-> 20, defense |-> 30]

SpawnPositions == {0}

SpawnRands == {1000}

\* the draws of random.uniform in MonsterAI._idle_behavior: threshold in 3.0 .. 8.0,
\* offset in -5.0 .. 5.0
PatrolDraws(thresholds, offsets) == [threshold : thresholds, offset : offsets]

---------------------------------------------------------------------------
(* Spec: the population.  Several agents of every species, plain damage, and a
   bare player descriptor whose attack fails the agent's update. *)

Next ==
    \/ AddSpawnPoint(SpawnPositions)
    \/ SpawnMonster({"great_jaggi", "kirin"}, SpawnPositions, SpawnRands)
    \/ DamageMonster({3000}, {"physical"}, {None}, {0})
    \/ UpdateMonsters({150, 300}, {<<>>, <<Hunter3>>}, {20}, PatrolDraws({80}, {0}), SpawnRands)

Spec == Init /\ [][Next]_vars

---------------------------------------------------------------------------
(* One agent at a time *)

\* a spawn_monster call made on an empty population
SpawnAlone(monster_types) ==
    /\ active_monsters = <<>>
    /\ SpawnMonster(monster_types, SpawnPositions, SpawnRands)

(* SpecCombat: one agent, elemental damage, players in attack range, in chase
   range and absent, sweeps one and three seconds apart. *)

NextCombat ==
    \/ SpawnAlone({"great_jaggi", "rathian", "tigrex"})
    \/ DamageMonster({600}, {"physical", "fire"}, {None}, {0})
    \/ UpdateMonsters({100}, {<<>>, <<Hunter1>>, <<Hunter2>>}, {10, 30},
                      PatrolDraws({50}, {0, 40}), SpawnRands)

SpecCombat == Init /\ [][NextCombat]_vars

(* SpecStatus: one agent, status instances of several kinds and durations applied
   with and without damage, stacked up to MaxEffects, no players.  great_jaggi
   resists poison and tigrex resists paralysis. *)

NextStatus ==
    \/ SpawnAlone({"great_jaggi", "tigrex"})
    \/ DamageMonster({0, 795}, {"physical"},
                     {None, Some("poison"), Some("paralysis")}, {20, 100})
    \/ UpdateMonsters({100}, {<<>>}, {15}, PatrolDraws({80}, {0}), SpawnRands)

SpecStatus == Init /\ [][NextStatus]_vars

(* SpecChase: one agent and a player in chase range, ticks of one and of ten
   seconds, damage down to the enrage threshold, and traps. *)

NextChase ==
    \/ SpawnAlone({"great_jaggi", "rathian"})
    \/ DamageMonster({600}, {"physical"}, {None, Some("trap")}, {20})
    \/ UpdateMonsters({10, 100}, {<<>>, <<Hunter2>>}, {10}, PatrolDraws({80}, {0}), SpawnRands)

SpecChase == Init /\ [][NextChase]_vars

---------------------------------------------------------------------------
(* SpecQuery: two agents at different places, a bare player descriptor within
   attack range of one of them only, fatal damage, and state queries with live
   ids, with an id never handed out and with ids handed out earlier. *)

\* the spawn position and a place beyond the chase range of Hunter3
FarPositions == {0, 300}

SweepDraws == PatrolDraws({80}, {0})

\* StaleId and the ids spawn_monster can have handed out in the first two seconds
QueryIds == {StaleId} \cup {<<"great_jaggi", Epoch \div 10 + t, r>> : t \in 0 .. 2, r \in SpawnRands}

NextQuery ==
    \/ SpawnMonster({"great_jaggi"}, FarPositions, SpawnRands)
    \/ DamageMonster({600}, {"fire"}, {None}, {0})
    \/ UpdateMonsters({100}, {<<>>, <<Hunter3>>}, {20}, SweepDraws, SpawnRands)
    \/ GetMonsterState(QueryIds)

SpecQuery == Init /\ [][NextQuery]_vars

---------------------------------------------------------------------------
(* SpecRace: one poisoned agent in a concurrent host.  Spawns and poisonings
   happen while no sweep is suspended; every sweep meets an active poison
   instance, is suspended there, and is overtaken by at most MaxRacing damage
   calls (by none: the sweep runs as if alone). *)

NextRace ==
    \/ inflight = None /\ SpawnAlone({"great_jaggi"})
    \/ inflight = None /\ DamageMonster({0, 600}, {"physical"}, {Some("poison")}, {100})
    \/ SuspendSweep({10}, {<<>>}, {10}, SweepDraws)
    \/ /\ inflight # None
       /\ Len(inflight[1].calls) < MaxRacing
       /\ DamageMonster({600}, {"physical"}, {None}, {0})
    \/ ResumeSweep(SpawnRands)

SpecRace == Init /\ [][NextRace]_vars

---------------------------------------------------------------------------
(* SpecApply: one agent, poison of positive, zero and negative duration applied
   between sweeps that let the stored instances age.  great_jaggi resists poison
   and tigrex does not. *)

NextApply ==
    \/ SpawnAlone({"great_jaggi", "tigrex"})
    \/ DamageMonster({0}, {"physical"}, {None, Some("poison")}, {-20, 0, 40})
    \/ UpdateMonsters({10}, {<<>>}, {10}, SweepDraws, SpawnRands)

SpecApply == Init /\ [][NextApply]_vars

(* SpecTarget: one agent and lists of up to three players, with the nearest one
   first, last or in the middle, with two players at the same distance on either
   side of the agent in both orders, and without players; the patrol draw lets an
   agent left alone for more than two seconds wander. *)

NextTarget ==
    \/ SpawnAlone({"great_jaggi"})
    \/ DamageMonster({600}, {"physical"}, {None}, {0})
    \/ UpdateMonsters({10}, {<<>>, <<Hunter1, Hunter4>>, <<Hunter4, Hunter1>>,
                             <<Hunter2, Hunter1>>, <<Hunter2, Hunter5, Hunter4>>},
                      {10}, PatrolDraws({20}, {40}), SpawnRands)

SpecTarget == Init /\ [][NextTarget]_vars

(* SpecSpawn: spawn calls with two draws of the id suffix, several of them within
   one second, agents damaged in between, sweeps two seconds apart. *)

SuffixDraws == {1000, 1001}

NextSpawn ==
    \/ SpawnMonster({"great_jaggi"}, SpawnPositions, SuffixDraws)
    \/ DamageMonster({600}, {"physical"}, {None}, {0})
    \/ UpdateMonsters({10}, {<<>>}, {20}, SweepDraws, SpawnRands)

SpecSpawn == Init /\ [][NextSpawn]_vars

(* SpecCadence: the spawn timer under sweeps of 15 s and 30 s, with and without
   a spawn point, with the population below and at the cap, and with agents
   killed before the sweep that removes them. *)

NextCadence ==
    \/ AddSpawnPoint(SpawnPositions)
    \/ SpawnMonster({"great_jaggi"}, SpawnPositions, SpawnRands)
    \/ DamageMonster({3000}, {"physical"}, {None}, {0})
    \/ UpdateMonsters({150, 300}, {<<>>}, {20}, SweepDraws, SpawnRands)

SpecCadence == Init /\ [][NextCadence]_vars

(* SpecAttack: one agent with a player at 1.0, at exactly 2.0, in chase range or
   absent, sweeps 1.0 s and 1.5 s apart (so that an enraged agent, whose cooldown
   is 1.4 s, goes through its three patterns), and damage down to the enrage and
   flee thresholds. *)

NextAttack ==
    \/ SpawnAlone({"great_jaggi", "rathian", "tigrex"})
    \/ DamageMonster({600}, {"physical"}, {None}, {0})
    \/ UpdateMonsters({10}, {<<>>, <<Hunter1>>, <<Hunter5>>, <<Hunter2>>}, {10, 15},
                      SweepDraws, SpawnRands)

SpecAttack == Init /\ [][NextAttack]_vars

---------------------------------------------------------------------------
(* Properties *)

Agents == {active_monsters[i].ai : i \in DOMAIN active_monsters}

\* the agent object ai as it is after the step, if it is still in the population
After(ai) == {active_monsters[j].ai : j \in {k \in DOMAIN active_monsters :
                                                   active_monsters[k].ai.serial = ai.serial}}

\* the boolean flag a status kind drives (poison and stun drive none)
FlagKinds == {"paralysis", "sleep", "trap", "mount"}

Flag(ai, kind) ==
    CASE kind = "paralysis" -> ai.is_stunned
      [] kind = "sleep" -> ai.is_sleeping
      [] kind = "trap" -> ai.is_trapped
      [] kind = "mount" -> ai.is_mounted

Instances(ai) == {ai.status_effects[k] : k \in DOMAIN ai.status_effects}

\* C1: every agent's health lies between 0 and its species' max_health in every
\* state, after any ticks (poison included) and damage calls.
C1_HealthWithinBounds ==
    \A ai \in Agents :
        /\ 0 <= ai.current_health
        /\ ai.current_health <= monster_templates[ai.stats].max_health

\* C2: "defeated" has been returned exactly once for an agent whose health has
\* reached 0, and never for an agent whose health is above 0.
C2_DefeatedExactlyOnce ==
    \A ai \in Agents :
        defeated_reports[ai.serial] = (IF ai.current_health <= 0 THEN 1 ELSE 0)

\* C3: after a sweep no agent whose health has reached 0 is left in the population.
C3_DeadRemovedBySweep ==
    last.op = "update_monsters" => \A ai \in Agents : ai.current_health > 0

\* C4: the number of live agents never exceeds the cap.
C4_PopulationWithinCap == Len(active_monsters) <= max_monsters

\* C4 witness: a sweep whose timed spawn has just filled the population to the cap.
C4_Witness ==
    /\ last.op = "update_monsters"
    /\ Len(active_monsters) = max_monsters
    /\ \E ai \in Agents : ai.last_movement = now /\ ai.last_movement > Epoch

\* C5: a spawn call made at the cap, or for a species not in the catalog, returns
\* None and changes neither the population nor the templates nor the timer.
C5_DeclinedSpawnIsNoOp ==
    [][(/\ last'.op = "spawn_monster"
        /\ \/ Len(active_monsters) >= max_monsters
           \/ last'.monster_type \notin DOMAIN monster_templates)
       => /\ last'.ret = None
          /\ UNCHANGED <<active_monsters, monster_templates, spawn_points, spawn_timer,
                         created, defeated_reports>>]_vars

\* C5 witness: a spawn of a known species declined because the population is full.
C5_Witness ==
    /\ last.op = "spawn_monster"
    /\ last.ret = None
    /\ last.monster_type \in DOMAIN monster_templates
    /\ Len(active_monsters) = max_monsters

\* C6: an enraged agent is still enraged after every call.
C6_EnragedMonotone ==
    [][\A ai \in Agents : ai.is_enraged => \A next \in After(ai)' : next.is_enraged]_vars

\* C6 witness: an agent enraged in an earlier sweep that has since been damaged.
C6_Witness ==
    /\ last.op = "damage_monster"
    /\ \E i \in DOMAIN active_monsters :
           /\ active_monsters[i].id = last.monster_id
           /\ active_monsters[i].ai.is_enraged
           /\ active_monsters[i].ai.rage_timer < now

PlayerDefense(id) ==
    CASE id = Hunter1.id -> Hunter1.defense
      [] id = Hunter2.id -> Hunter2.defense
      [] id = Hunter3.id -> Hunter3.defense
      [] id = Hunter4.id -> Hunter4.defense
      [] id = Hunter5.id -> Hunter5.defense

\* the attack pattern of the agent that carries the name an attack result gives
PatternNamed(ai, name) ==
    CHOOSE pattern \in {ai.attack_patterns[k] : k \in DOMAIN ai.attack_patterns} :
        pattern.name = name

\* C7: the cooldown is the initial 2.0 s before enrage and 0.7 times that ever
\* after, and every attack returned by a sweep carries the pattern's damage with
\* the species' enrage multiplier applied once if the agent is enraged.
C7_EnrageAppliedOnce ==
    /\ \A ai \in Agents : ai.attack_cooldown = (IF ai.is_enraged THEN 14 ELSE 20)
    /\ last.op = "update_monsters" =>
         \A k \in DOMAIN last.ret :
             last.ret[k].update.action = "attack" =>
                 \A e \in {active_monsters[i] : i \in DOMAIN active_monsters} :
                     e.id = last.ret[k].monster_id =>
                         last.ret[k].update.damage =
                             Max(1, (IF e.ai.is_enraged
                                     THEN (PatternNamed(e.ai, last.ret[k].update.attack_name).damage
                                           * create_monster_templates[e.ai.stats].enrage_multiplier) \div 10
                                     ELSE PatternNamed(e.ai, last.ret[k].update.attack_name).damage)
                                    - PlayerDefense(last.ret[k].update.target_player))

\* C7 witness: an agent enraged in an earlier sweep attacks in a later one.
C7_Witness ==
    /\ last.op = "update_monsters"
    /\ \E k \in DOMAIN last.ret, i \in DOMAIN active_monsters :
           /\ last.ret[k].update.action = "attack"
           /\ active_monsters[i].id = last.ret[k].monster_id
           /\ active_monsters[i].ai.is_enraged
           /\ active_monsters[i].ai.rage_timer < now

\* C8: the species templates are the ones the catalog was built with.
C8_TemplatesImmutable == monster_templates = create_monster_templates

\* C9: a flag that is set stays set over a call as long as the agent holds an
\* instance of its kind whose elapsed time is still less than its duration.
C9_FlagHeldWhileUnexpired ==
    [][\A ai \in Agents : \A e \in Instances(ai) :
           (/\ e.effect \in FlagKinds
            /\ Flag(ai, e.effect)
            /\ now' - e.start_time < e.duration)
           => \A next \in After(ai)' : Flag(next, e.effect)]_vars

\* C10: after a sweep each flag is true exactly if the agent holds an unexpired
\* instance of its kind.
C10_FlagsTrackInstances ==
    last.op = "update_monsters" =>
        \A ai \in Agents : \A kind \in FlagKinds :
            Flag(ai, kind) <=> \E e \in Instances(ai) :
                                   e.effect = kind /\ now - e.start_time < e.duration

Entries == {active_monsters[i] : i \in DOMAIN active_monsters}

\* the multiplier take_damage applies for an element, in tenths
Multiplier(stats, attack_type) ==
    IF attack_type \in stats.elemental_weakness THEN 15
    ELSE IF attack_type \in stats.elemental_resistance THEN 7
    ELSE 10

\* C11: the damage a damage call applies is max(1, round(amount * multiplier) -
\* defense), the multiplier being 1.5 for a weakness of the species, 0.7 for a
\* resistance and 1 otherwise, and defense the defense of the species.
C11_DamageMultiplierLaw ==
    (last.op = "damage_monster" /\ last.ret # None) =>
        \A e \in Entries :
            e.id = last.monster_id =>
                last.ret[1].damage =
                    Max(1, round(last.damage * Multiplier(create_monster_templates[e.ai.stats],
                                                          last.attack_type))
                           - create_monster_templates[e.ai.stats].defense)

\* C12: a damage call leaves the agent's health at max(0, health - final_damage);
\* it returns "defeated" exactly if the new health is 0, and otherwise "flee" or
\* "damaged" carrying the new health.
C12_DamageClampsAndClassifies ==
    [][(last'.op = "damage_monster" /\ last'.ret # None) =>
         \A e \in Entries :
             e.id = last'.monster_id =>
                 \A next \in After(e.ai)' :
                     /\ next.current_health =
                            Max(0, e.ai.current_health - last'.ret[1].damage)
                     /\ last'.ret[1].action = "defeated" <=> next.current_health = 0
                     /\ last'.ret[1].action # "defeated" =>
                            /\ last'.ret[1].action \in {"flee", "damaged"}
                            /\ last'.ret[1].health = next.current_health]_vars

\* C12 witness: a great_jaggi takes 600 FIRE, 900 after the multiplier, and the call
\* returns "defeated" with the health at 0.
C12_Witness ==
    /\ last.op = "damage_monster"
    /\ last.damage = 600
    /\ last.attack_type = "fire"
    /\ last.ret = Some([action |-> "defeated", damage |-> 900, health |-> 0,
                        status |-> "dead"])
    /\ \E e \in Entries :
           e.id = last.monster_id /\ e.ai.stats = "great_jaggi" /\ e.ai.current_health = 0

\* C13: a state query or a damage call with an id that is not in the population
\* returns None, does not raise, and changes neither the population nor any agent
\* nor the templates, the spawn points or the timer.
C13_UnknownIdIsNoOp ==
    [][(/\ last'.op \in {"get_monster_state", "damage_monster"}
        /\ last'.monster_id \notin Ids(active_monsters))
       => /\ last'.ret = None
          /\ last'.op = "get_monster_state" => ~last'.raised
          /\ UNCHANGED <<active_monsters, monster_templates, spawn_points, spawn_timer,
                         created, defeated_reports>>]_vars

\* C13 witness: the only agent created so far was spawned before the first sweep
\* and removed by it, and its id has been queried since.
C13_Witness ==
    /\ last.op = "get_monster_state"
    /\ last.monster_id = <<"great_jaggi", Epoch \div 10, 1000>>
    /\ last.ret = None
    /\ created = 1
    /\ active_monsters = <<>>
    /\ now = Epoch + 20

\* C14: when the update of an agent raises during a sweep, every other agent of the
\* population is updated once, in order, and its action returned, and the agent
\* whose update raised is not in the population after the sweep.
C14_FailureIsIsolated ==
    [][last'.op = "update_monsters" =>
         /\ Len(last'.ret) =
                Cardinality({j \in DOMAIN active_monsters :
                                 active_monsters[j].id \notin last'.raised})
         /\ \A i \in DOMAIN active_monsters : \A e \in {active_monsters[i]} :
                IF e.id \in last'.raised
                THEN /\ After(e.ai)' = {}
                     /\ \A k \in DOMAIN last'.ret : last'.ret[k].monster_id # e.id
                ELSE \E rnd \in SweepDraws :
                         \A u \in {update(e.ai, monster_templates, last'.delta_time,
                                           last'.nearby_players, now', rnd)} :
                         \A k \in {Cardinality({j \in 1 .. i :
                                         active_monsters[j].id \notin last'.raised})} :
                             /\ last'.ret[k] = [monster_id |-> e.id, update |-> u.result]
                             /\ After(e.ai)' = {u.ai}]_vars

\* C14 witness: a sweep in which the update of one agent raised and the update of
\* another was returned.
C14_Witness ==
    /\ last.op = "update_monsters"
    /\ last.raised # {}
    /\ last.ret # <<>>
    /\ \E e \in Entries : e.id = last.ret[1].monster_id

\* the agent monster_id after those of the damage calls that name it, in order
RECURSIVE take_damages(_, _, _, _, _)
take_damages(ai, monster_id, templates, calls, current_time) ==
    IF calls = <<>> THEN ai
    ELSE IF Head(calls).monster_id # monster_id
    THEN take_damages(ai, monster_id, templates, Tail(calls), current_time)
    ELSE take_damages(take_damage(ai, templates, Head(calls).damage, Head(calls).attack_type,
                                  Head(calls).status_effect, Head(calls).status_duration,
                                  current_time, Head(calls).flee_draw).ai,
                      monster_id, templates, Tail(calls), current_time)

\* C15: when damage calls run while a sweep is updating the same agent, the agent
\* is left as by one of the two serial orders: the tick and then the damage calls,
\* or the damage calls and then the tick.
C15_RaceIsSerializable ==
    [][(inflight # None /\ inflight' = None) =>
         \A f \in {inflight[1]} :
             \A rnd \in {f.rnds[IndexOf(active_monsters, f.monster_id)]} :
                 \A tick_first \in {take_damages(update(f.loaded, monster_templates,
                                                        f.delta_time, f.nearby_players,
                                                        now, rnd).ai,
                                                 f.monster_id, monster_templates,
                                                 f.calls, now)} :
                 \A damage_first \in {update(take_damages(f.loaded, f.monster_id,
                                                           monster_templates, f.calls, now),
                                             monster_templates, f.delta_time,
                                             f.nearby_players, now, rnd).ai} :
                     \A next \in After(f.loaded)' : next \in {tick_first, damage_first}]_vars

\* C16: a state query changes nothing: not the population, not a field of an
\* agent, not the spawn timer, the spawn points, the templates or the clock.
C16_QueryIsReadOnly ==
    [][last'.op = "get_monster_state" =>
         UNCHANGED <<now, monster_templates, active_monsters, spawn_points, spawn_timer,
                     created, defeated_reports>>]_vars

\* C16 witness: the state of a live agent without health has been returned.
C16_Witness ==
    /\ last.op = "get_monster_state"
    /\ last.ret # None
    /\ \E e \in Entries :
           /\ e.id = last.monster_id
           /\ e.ai.current_health = 0
           /\ last.ret[1] = get_state(e.ai, monster_templates)

\* C17: the update a sweep returns for an agent whose health is 0 or less is
\* "defeated" (so it is no attack, chase or patrol).
C17_DeadIsTerminal ==
    last.op = "update_monsters" =>
        \A k \in DOMAIN last.ret : \A e \in Entries :
            (e.id = last.ret[k].monster_id /\ e.ai.current_health <= 0) =>
                last.ret[k].update.action = "defeated"

\* C18: the update a sweep returns for an agent that is stunned or asleep in that
\* tick is "stunned" or "sleep", and the agent is where it was.
C18_StunnedOrAsleepHolds ==
    [][last'.op = "update_monsters" =>
         \A e \in Entries : \A next \in After(e.ai)' :
             (next.is_stunned \/ next.is_sleeping) =>
                 /\ next.position = e.ai.position
                 /\ \A k \in DOMAIN last'.ret :
                        last'.ret[k].monster_id = e.id =>
                            last'.ret[k].update.action \in {"stunned", "sleep"}]_vars

\* the step of a chase: speed * delta_time, 1.3 times that if enraged, and no more
\* than the distance d
ChaseStep(ai, d, delta_time) ==
    Min(d, IF ai.is_enraged
           THEN (create_monster_templates[ai.stats].speed * delta_time * 13) \div 10
           ELSE create_monster_templates[ai.stats].speed * delta_time)

\* an agent that is neither stunned nor asleep in the tick (nor trapped, if
\* untrapped is asked), with the nearest player at a distance d, 2.0 < d <= 15.0:
\* the sweep returns "chase" and the agent has moved by ChaseStep toward the
\* player, to the distance d - step
ChasesWhen(untrapped) ==
    last'.op = "update_monsters" =>
        \A e \in Entries : \A next \in After(e.ai)' :
            LET nearest == find_nearest_player(e.ai, last'.nearby_players)
                d == distance_to(e.ai.position, nearest[1].position)
                step == ChaseStep(next, d, last'.delta_time)
            IN  (/\ nearest # None /\ 20 < d /\ d <= 150
                 /\ ~next.is_stunned /\ ~next.is_sleeping
                 /\ untrapped => ~next.is_trapped) =>
                    /\ \E k \in DOMAIN last'.ret :
                           /\ last'.ret[k].monster_id = e.id
                           /\ last'.ret[k].update.action = "chase"
                           /\ last'.ret[k].update.target = nearest[1].id
                           /\ last'.ret[k].update.position = next.position
                    /\ distance_to(next.position, e.ai.position) = step
                    /\ distance_to(next.position, nearest[1].position) = Max(0, d - step)

\* C19 as stated: an agent that is neither stunned nor asleep, with the nearest
\* player at 2.0 < d <= 15.0, chases: it moves by min(d, speed * (1.3 if enraged
\* else 1) * dt) toward the player, to the distance max(0, d - step).
C19_ChaseInRange == [][ChasesWhen(FALSE)]_vars

\* C19, amended: an agent that is neither stunned nor asleep nor trapped, with the
\* nearest player at 2.0 < d <= 15.0, chases: it moves by min(d, speed * (1.3 if
\* enraged else 1) * dt) toward the player, to the distance max(0, d - step).
C19_ChaseInRangeUntrapped == [][ChasesWhen(TRUE)]_vars

\* C19 witness: a rathian (speed 4.0) ten units from the player has chased for one
\* second and stands six units from it.
C19_Witness ==
    /\ last.op = "update_monsters"
    /\ last.delta_time = 10
    /\ last.nearby_players = <<Hunter2>>
    /\ \E k \in DOMAIN last.ret, e \in Entries :
           /\ e.id = last.ret[k].monster_id
           /\ e.ai.stats = "rathian"
           /\ ~e.ai.is_enraged
           /\ last.ret[k].update.action = "chase"
           /\ e.ai.position = 40
           /\ distance_to(e.ai.position, Hunter2.position) = 60

\* int() of a number given in tenths
truncate(tenths) == tenths \div 10

\* the damage of the attacks a sweep returned is max(1, whole - defense), whole
\* being the pattern's damage times the enrage multiplier, rounded or truncated
AttackDamageIs(rounded) ==
    last.op = "update_monsters" =>
        \A k \in DOMAIN last.ret : \A e \in Entries :
            (e.id = last.ret[k].monster_id /\ last.ret[k].update.action = "attack") =>
                LET pattern == PatternNamed(e.ai, last.ret[k].update.attack_name)
                    m == IF e.ai.is_enraged
                         THEN create_monster_templates[e.ai.stats].enrage_multiplier
                         ELSE 10
                    whole == IF rounded THEN round(pattern.damage * m)
                             ELSE truncate(pattern.damage * m)
                IN  /\ last.ret[k].update.damage =
                           Max(1, whole - PlayerDefense(last.ret[k].update.target_player))
                    /\ last.ret[k].update.damage >= 1

\* C20 as stated: every attack carries max(1, round(pattern.damage * m) - defense),
\* m the enrage multiplier of the species if the agent is enraged and 1 otherwise,
\* and so at least 1.
C20_AttackDamageRounded == AttackDamageIs(TRUE)

\* C20, amended: every attack carries max(1, int(pattern.damage * m) - defense),
\* the product truncated and not rounded, m the enrage multiplier of the species
\* if the agent is enraged and 1 otherwise, and so at least 1.
C20_AttackDamageTruncated == AttackDamageIs(FALSE)

\* C20 witness: an enraged great_jaggi has attacked with Charge (25 * 1.5 = 37.5)
\* a player of defense 15, for 22.
C20_Witness ==
    /\ last.op = "update_monsters"
    /\ \E k \in DOMAIN last.ret, e \in Entries :
           /\ e.id = last.ret[k].monster_id
           /\ e.ai.is_enraged
           /\ last.ret[k].update.action = "attack"
           /\ last.ret[k].update.attack_name = "Charge"
           /\ last.ret[k].update.target_player = Hunter1.id
           /\ last.ret[k].update.damage = 22

\* C21: in a sweep the pattern index of an agent advances by one slot, modulo the
\* length of its list, if the tick returned an attack (of the pattern the index
\* pointed at) or a miss, and stays where it was on every other tick.
C21_RoundRobin ==
    [][last'.op = "update_monsters" =>
         \A e \in Entries : \A next \in After(e.ai)' :
             \A k \in DOMAIN last'.ret :
                 last'.ret[k].monster_id = e.id =>
                     IF last'.ret[k].update.action \in {"attack", "miss"}
                     THEN /\ next.current_pattern_index =
                                (e.ai.current_pattern_index + 1) % Len(e.ai.attack_patterns)
                          /\ last'.ret[k].update.action = "attack" =>
                                last'.ret[k].update.attack_name =
                                    e.ai.attack_patterns[e.ai.current_pattern_index + 1].name
                     ELSE next.current_pattern_index = e.ai.current_pattern_index]_vars

\* C21 witness: an agent has attacked with the last pattern of its list and its
\* index is back at the first.
C21_Witness ==
    /\ last.op = "update_monsters"
    /\ \E k \in DOMAIN last.ret, e \in Entries :
           /\ e.id = last.ret[k].monster_id
           /\ last.ret[k].update.action = "attack"
           /\ last.ret[k].update.attack_name =
                  e.ai.attack_patterns[Len(e.ai.attack_patterns)].name
           /\ e.ai.current_pattern_index = 0

\* the distance from the agent to the player its tick selects, or -1 without players
TargetDistance(ai, nearby_players) ==
    IF find_nearest_player(ai, nearby_players) = None THEN -1
    ELSE distance_to(ai.position, find_nearest_player(ai, nearby_players)[1].position)

\* C22: in a sweep, an agent that is neither stunned nor asleep and whose nearest
\* player is within 2.0 returns cooldown exactly when the time since its last
\* attack is below its attack_cooldown and attacks otherwise, whatever the cooldown
\* field of the pattern in turn; an attack comes at least attack_cooldown after the
\* previous one and becomes the new last_attack_time.
C22_AgentCooldownIsSoleGate ==
    [][last'.op = "update_monsters" =>
         \A e \in Entries : \A next \in After(e.ai)' :
             \A k \in DOMAIN last'.ret :
                 last'.ret[k].monster_id = e.id =>
                     /\ (/\ TargetDistance(e.ai, last'.nearby_players) \in 0..20
                         /\ ~next.is_stunned /\ ~next.is_sleeping) =>
                            /\ last'.ret[k].update.action = "cooldown" <=>
                                   now' - e.ai.last_attack_time < next.attack_cooldown
                            /\ last'.ret[k].update.action \in {"cooldown", "attack", "miss"}
                     /\ last'.ret[k].update.action = "attack" =>
                            /\ now' - e.ai.last_attack_time >= next.attack_cooldown
                            /\ next.last_attack_time = now'
                     /\ last'.ret[k].update.action # "attack" =>
                            next.last_attack_time = e.ai.last_attack_time]_vars

\* C22 witness: a Rathian that is not enraged lands its Tail Flip (pattern cooldown
\* 2.5 s) three seconds after it was spawned, hence at most 2.0 s after its Fire
\* Breath (pattern cooldown 3.0 s), the first sweep being a second after the spawn.
C22_Witness ==
    /\ last.op = "update_monsters"
    /\ now = Epoch + 30
    /\ \E k \in DOMAIN last.ret, e \in Entries :
           /\ e.id = last.ret[k].monster_id
           /\ e.id[2] = Epoch \div 10
           /\ e.ai.stats = "rathian"
           /\ ~e.ai.is_enraged
           /\ e.ai.attack_cooldown = 20
           /\ last.ret[k].update.action = "attack"
           /\ last.ret[k].update.attack_name = "Tail Flip"
           /\ e.ai.last_attack_time = now

\* the agents a sweep did not remove
Survivors(removed) == {e \in Entries : e.id \notin removed}

\* C23: a sweep adds its delta_time to the spawn timer; if the sum has reached
\* spawn_interval and fewer than max_monsters agents are left after the removals,
\* the timer is reset to 0 and at most one agent is constructed and added, none if
\* there is no spawn point; otherwise the timer keeps the sum and no agent is
\* added.
C23_SpawnCadence ==
    [][last'.op = "update_monsters" =>
         \A left \in {Cardinality(Survivors(last'.removed))} :
             IF spawn_timer + last'.delta_time >= 300 /\ left < max_monsters
             THEN /\ spawn_timer' = 0
                  /\ created' \in {created, created + 1}
                  /\ Len(active_monsters') \in {left, left + (created' - created)}
                  /\ spawn_points = <<>> =>
                        created' = created /\ Len(active_monsters') = left
             ELSE /\ spawn_timer' = spawn_timer + last'.delta_time
                  /\ created' = created
                  /\ Len(active_monsters') = left]_vars

\* C23 witness: a sweep of a spawner without spawn points has reset the timer and
\* spawned nothing.
C23_Witness ==
    /\ last.op = "update_monsters"
    /\ last.delta_time = 300
    /\ spawn_timer = 0
    /\ spawn_points = <<>>
    /\ created = 0

\* C24: a damage call carrying a status kind and a positive duration appends one
\* instance of that kind to the agent's list, of intensity 1, started now and
\* lasting half the duration if the species resists the kind and the whole duration
\* otherwise, and leaves the instances already in the list as they were; a call
\* without a kind, or with a duration of zero or less, leaves the list as it was.
C24_StatusAppendsOneInstance ==
    [][(last'.op = "damage_monster" /\ last'.ret # None) =>
         \A e \in Entries : \A next \in After(e.ai)' :
             e.id = last'.monster_id =>
                 IF last'.status_effect # None /\ last'.status_duration > 0
                 THEN next.status_effects =
                        Append(e.ai.status_effects,
                               [effect |-> last'.status_effect[1],
                                duration |-> IF last'.status_effect[1] \in
                                                  monster_templates[e.ai.stats].status_resistance
                                             THEN last'.status_duration \div 2
                                             ELSE last'.status_duration,
                                intensity |-> 1,
                                start_time |-> now])
                 ELSE next.status_effects = e.ai.status_effects]_vars

\* C24 witness: a Great Jaggi, which resists poison, carries an older poison
\* instance that has aged and a new one stored with half of the 4.0 s applied.
C24_Witness ==
    /\ last.op = "damage_monster"
    /\ last.ret # None
    /\ last.status_effect = Some("poison")
    /\ last.status_duration = 40
    /\ \E e \in Entries :
           /\ e.id = last.monster_id
           /\ e.ai.stats = "great_jaggi"
           /\ Len(e.ai.status_effects) = 2
           /\ e.ai.status_effects[1].effect = "poison"
           /\ e.ai.status_effects[1].start_time < now
           /\ e.ai.status_effects[2] = [effect |-> "poison", duration |-> 20,
                                        intensity |-> 1, start_time |-> now]

\* C25: a sweep leaves the behaviour state of every agent as it was and returns no
\* flee action; the state becomes "fleeing" only in a damage call that returns
\* flee, and such a call leaves the health above 0 and below a fifth of max_health.
C25_FleeOnlyThroughDamage ==
    [][\A e \in Entries : \A next \in After(e.ai)' :
          /\ last'.op = "update_monsters" =>
                /\ next.state = e.ai.state
                /\ \A k \in DOMAIN last'.ret : last'.ret[k].update.action # "flee"
          /\ (next.state = "fleeing" /\ e.ai.state # "fleeing") =>
                /\ last'.op = "damage_monster"
                /\ last'.monster_id = e.id
                /\ last'.ret # None
                /\ last'.ret[1].action = "flee"
          /\ (/\ last'.op = "damage_monster" /\ last'.monster_id = e.id
              /\ last'.ret # None /\ last'.ret[1].action = "flee") =>
                /\ next.state = "fleeing"
                /\ next.current_health > 0
                /\ next.current_health * 10 < monster_templates[e.ai.stats].max_health * 2
                /\ last'.ret[1].health = next.current_health]_vars

\* C25 witness: a damage call has returned flee for an agent that is now fleeing.
C25_Witness ==
    /\ last.op = "damage_monster"
    /\ last.ret # None
    /\ last.ret[1].action = "flee"
    /\ \E e \in Entries : e.id = last.monster_id /\ e.ai.state = "fleeing"
                           /\ e.ai.current_health > 0

\* C26: in a sweep with players, the agent's target becomes the first player of
\* the list among those at the least distance from the agent, and an attack or a
\* chase it returns is directed at that player; in a sweep without players the
\* agent's target is left as it was and the agent returns patrol or idle.
C26_NearestPlayerEarliestOnTies ==
    [][last'.op = "update_monsters" =>
         \A e \in Entries : \A next \in After(e.ai)' :
             \A k \in DOMAIN last'.ret :
                 last'.ret[k].monster_id = e.id =>
                     IF last'.nearby_players = <<>>
                     THEN /\ last'.ret[k].update.action \in {"patrol", "idle"}
                          /\ next.target_player = e.ai.target_player
                     ELSE \E i \in DOMAIN last'.nearby_players :
                            /\ \A j \in DOMAIN last'.nearby_players :
                                  /\ distance_to(e.ai.position, last'.nearby_players[i].position)
                                       <= distance_to(e.ai.position, last'.nearby_players[j].position)
                                  /\ j < i =>
                                       distance_to(e.ai.position, last'.nearby_players[i].position)
                                         < distance_to(e.ai.position, last'.nearby_players[j].position)
                            /\ next.target_player = Some(last'.nearby_players[i].id)
                            /\ last'.ret[k].update.action = "attack" =>
                                  last'.ret[k].update.target_player = last'.nearby_players[i].id
                            /\ last'.ret[k].update.action = "chase" =>
                                  last'.ret[k].update.target = last'.nearby_players[i].id]_vars

\* C26 witness: an agent at the origin, with players at 1.0 on either side of it,
\* has attacked the one listed first although the other was its target before.
C26_Witness ==
    /\ last.op = "update_monsters"
    /\ last.nearby_players = <<Hunter4, Hunter1>>
    /\ \E k \in DOMAIN last.ret, e \in Entries :
           /\ e.id = last.ret[k].monster_id
           /\ e.ai.position = 0
           /\ last.ret[k].update.action = "attack"
           /\ last.ret[k].update.target_player = "player4"
           /\ last.ret[k].update.attack_name = "Charge"
           /\ e.ai.target_player = Some("player4")

\* C27: a spawn call that returns an id returns one that no agent of the
\* population carried before the call, makes the population one larger, and leaves
\* every agent that was in the population in its place and as it was.
C27_SpawnAddsFreshAgent ==
    [][(last'.op = "spawn_monster" /\ last'.ret # None) =>
         /\ last'.ret[1] \notin Ids(active_monsters)
         /\ Len(active_monsters') = Len(active_monsters) + 1
         /\ \A i \in DOMAIN active_monsters :
               active_monsters'[i] = active_monsters[i]]_vars

\* C28: in a sweep whose players are descriptors without a name, an agent that is
\* neither stunned nor asleep, has its nearest player within 2.0 and is off
\* cooldown returns an attack and is still in the population after the sweep.
C28_BareDescriptorAttackLands ==
    [][last'.op = "update_monsters" =>
         \A e \in Entries :
             (/\ \A i \in DOMAIN last'.nearby_players : ~last'.nearby_players[i].has_name
              /\ TargetDistance(e.ai, last'.nearby_players) \in 0..20
              /\ ~e.ai.is_stunned /\ ~e.ai.is_sleeping /\ e.ai.status_effects = <<>>
              /\ now' - e.ai.last_attack_time >= e.ai.attack_cooldown) =>
                 /\ e.id \in Ids(active_monsters')
                 /\ \E k \in DOMAIN last'.ret :
                       /\ last'.ret[k].monster_id = e.id
                       /\ last'.ret[k].update.action = "attack"]_vars

\* C29: no sweep returns a miss, and every attack pattern of every species of the
\* catalog, and the pattern of a species without patterns of its own, has a range
\* of at least 2.0.
C29_UpdateNeverMisses ==
    /\ last.op = "update_monsters" =>
          \A k \in DOMAIN last.ret : last.ret[k].update.action # "miss"
    /\ \A monster_type \in MonsterType :
          \A i \in DOMAIN generate_attack_patterns(monster_type) :
              generate_attack_patterns(monster_type)[i].range >= 20

\* C29 witness: an agent has landed its Bite, whose range is 2.0, on a player
\* exactly 2.0 away.
C29_Witness ==
    /\ last.op = "update_monsters"
    /\ last.nearby_players = <<Hunter5>>
    /\ \E k \in DOMAIN last.ret, e \in Entries :
           /\ e.id = last.ret[k].monster_id
           /\ distance_to(e.ai.position, Hunter5.position) = 20
           /\ last.ret[k].update.action = "attack"
           /\ last.ret[k].update.attack_name = "Bite"

\* C30: over a sweep or a damage call the health of an agent does not increase,
\* and an enraged agent's health is at most rage_threshold * max_health.
C30_HealthNeverIncreases ==
    /\ [](\A ai \in Agents :
            ai.is_enraged =>
                ai.current_health * 10 <= monster_templates[ai.stats].rage_threshold
                                            * monster_templates[ai.stats].max_health)
    /\ [][\A ai \in Agents : \A next \in After(ai)' :
              next.current_health <= ai.current_health]_vars

=============================================================================
